---- MODULE Spec2Model ----
(***************************************************************************)
(* A ChannelClient and the peer's ChannelServer of ipc.ts, joined by one   *)
(* ordered, reliable IMessagePassingProtocol.  The caller (call, listen,   *)
(* subscribe, unsubscribe, cancel), the service behind the registered      *)
(* channel (its promises settle, its events fire) and the timers are the   *)
(* environment.                                                            *)
(***************************************************************************)
EXTENDS Integers, Sequences, FiniteSets, TLC

(***************************************************************************)
(* Bounds of the model.                                                    *)
(***************************************************************************)
\* request ids one ChannelClient issues (calls and listens together)
MaxRequests == 2
\* distinct subscribers of an event source
MaxSubscribers == 2
\* subscribe operations over a run
MaxSubscribes == 2
\* registerChannel calls over a run
MaxRegister == 1
\* emissions of the service's events over a run
MaxFires == 1
\* peers that connect to the hub
MaxPeers == 2
\* calls and listens routed through the hub
MaxRoutes == 2
\* registerChannel calls on the hub
MaxHubRegisters == 2
\* length of the strings, buffers and arrays put through the codec
MaxLen == 2
\* Initialize frames a ChannelClient is sent over its lifetime
MaxInitialize == 2
\* calls and listens issued on a next-tick channel
MaxTickCalls == 4

(***************************************************************************)
(* enum RequestType, enum ResponseType                                     *)
(***************************************************************************)
Promise == 100
PromiseCancel == 101
EventListen == 102
EventDispose == 103
Initialize == 200
PromiseSuccess == 201
PromiseError == 202
PromiseErrorObj == 203
EventFire == 204

\* enum State
Uninitialized == "Uninitialized"
Idle == "Idle"

Ids == 0 .. (MaxRequests - 1)
Subscribers == 1 .. MaxSubscribers
ChannelNames == {"svc"}
\* payloads a service resolves, rejects or fires with
Values == {"a"}
\* the name of the error the pending-request timeout answers with
UnknownChannel == "Unknown channel"
\* errors.canceled()
Canceled == "Canceled"
NoValue == "-"

VARIABLES
  \* ---- ChannelClient
  state,                \* State
  lastRequestId,        \* next id to issue
  handlers,             \* keys of the handlers map
  activeRequests,       \* the client's activeRequests, by the id they belong to
  requests,             \* id -> RequestType of the operation that was issued the id (0: none)
  uninitializedPromise, \* id -> "null" | "pending" | "resolved"
  result,               \* id -> the caller's future: [st, v]
  token,                \* id -> the caller's cancellation token was cancelled
  cancelledAt,          \* id -> where the call stood when its token was cancelled
  listeners,            \* id -> subscribers of the emitter requestEvent returned
  observed,             \* subscriber -> what its listener was called with
  subscribes,           \* subscribe operations so far
  \* ---- the protocol: the frames in flight, per direction, in send order
  toServer,
  toClient,
  \* ---- what was sent so far, per request id: the types of the request
  \* frames the client sent for the id, the responses the server sent for it
  sent,
  answered,
  \* ---- ChannelServer and the services behind its channels
  channelServer,
  registers,            \* registerChannel calls so far
  fires,                \* event emissions so far
  \* ---- IPCServer, the peers that connect to it, the routes through it
  hub,
  \* ---- the wire codec at work on one message
  codec,
  \* ---- the lifecycle of the ChannelClient: its protocolListener, the times
  \* onDidInitialize fired, the calls whose disposable was disposed
  channelClient,
  \* ---- a channel made by getNextTickChannel
  tick

clientVars == <<state, lastRequestId, handlers, activeRequests, requests,
                uninitializedPromise, result, token, cancelledAt, listeners,
                observed, subscribes, channelClient>>
wireVars == <<toServer, toClient, sent, answered>>
serverVars == <<channelServer, registers, fires>>
hubVars == <<hub>>
codecVars == <<codec>>
tickVars == <<tick>>
vars == <<clientVars, wireVars, serverVars, hubVars, codecVars, tickVars>>

\* the last element of a sequence
Last(seq) == seq[Len(seq)]

(***************************************************************************)
(* Frames.  A request frame is [type, id, channelName]; a response frame   *)
(* is [type, id] with the payload as body.                                 *)
(***************************************************************************)
Frame(type, id, channelName, data) ==
  [type |-> type, id |-> id, channelName |-> channelName, data |-> data]

\* ChannelClient.sendRequest / send / sendBuffer
sendRequest(request) ==
  /\ toServer' = Append(toServer, request)
  /\ sent' = [sent EXCEPT ![request.id] = Append(@, request.type)]

\* ChannelClient.sendRequest, for the requests one step sends, in order
sendRequests(frames) ==
  /\ toServer' = toServer \o frames
  /\ sent' = [id \in Ids |->
       sent[id] \o [i \in 1 .. Len(SelectSeq(frames, LAMBDA r : r.id = id)) |->
                      SelectSeq(frames, LAMBDA r : r.id = id)[i].type]]

\* ChannelServer.sendResponse / send / sendBuffer, for a list of responses to
\* one request id
sendResponse(responses) ==
  /\ toClient' = toClient \o responses
  /\ answered' = [id \in Ids |->
       answered[id] \o SelectSeq(responses, LAMBDA r : r.id = id)]

(***************************************************************************)
(* ChannelServer.  channelServer is a record:                              *)
(*   channels         names registered                                     *)
(*   activeRequests   id -> "none" | "call" | "event": the disposable kept *)
(*                    under the id (a cancel handle, a subscription)       *)
(*   pendingRequests  channel name -> queue of [request, timeoutTimer]     *)
(*   timers           the pending-request timers that are armed, each      *)
(*                    named by its request                                 *)
(*   fired            the requests whose pending-request timer fired       *)
(*   collected        the requests collectPendingRequest queued            *)
(*   inTime           the queued requests whose timer was still armed when *)
(*                    their channel was registered                         *)
(*   handled          id -> types of the request frames handled for the id *)
(*   flushTasks       the setTimeout(.., 0) tasks registerChannel queued   *)
(*   calls            id -> "none" | "running" | "settled": the promise    *)
(*                    channel.call returned for the request                *)
(*   tokens           id -> the token handed to channel.call is cancelled  *)
(*   outcomes         id -> what the promise settled with                  *)
(*   subscriptions    id -> live listeners on the channel's event that     *)
(*                    send EventFire(id)                                   *)
(*   dispatched       the requests handed to a channel, in the order of    *)
(*                    the channel.call / channel.listen                    *)
(*   protocolListener the listener on protocol.onMessage is attached       *)
(* A request is [type, id, channelName, n]: the n-th frame received for    *)
(* the id.                                                                 *)
(***************************************************************************)
\* setTimeout(.., this.timeoutDelay) in collectPendingRequest
setTimeout(s, handle) == [s EXCEPT !.timers = @ \cup {handle}]

\* a clearTimeout that leaves the timer armed
clearTimeoutLeavesArmed(s, handle) == s

\* clearTimeout(request.timeoutTimer) in flushPendingRequests
clearTimeout(s, handle) == [s EXCEPT !.timers = @ \ {handle}]

\* ChannelServer.collectPendingRequest: arm the timer, queue the request
collectPendingRequest(s, request) ==
  [setTimeout(s, request)
     EXCEPT !.pendingRequests[request.channelName] =
              Append(@, [request |-> request, timeoutTimer |-> request]),
            !.collected = @ \cup {request}]

\* ChannelServer.onPromise
onPromise(s, request) ==
  IF request.channelName \notin s.channels
    THEN collectPendingRequest(s, request)
    ELSE [s EXCEPT !.calls[request.id] = "running",
                   !.tokens[request.id] = FALSE,
                   !.dispatched = Append(@, request),
                   !.activeRequests[request.id] = "call"]

\* ChannelServer.onEventListen
onEventListen(s, request) ==
  IF request.channelName \notin s.channels
    THEN collectPendingRequest(s, request)
    ELSE [s EXCEPT !.subscriptions[request.id] = @ + 1,
                   !.dispatched = Append(@, request),
                   !.activeRequests[request.id] = "event"]

\* ChannelServer.disposeActiveRequest: dispose the handle kept under the id
disposeActiveRequest(s, request) ==
  CASE s.activeRequests[request.id] = "call" ->
         [s EXCEPT !.tokens[request.id] = TRUE,
                   !.activeRequests[request.id] = "none"]
    [] s.activeRequests[request.id] = "event" ->
         [s EXCEPT !.subscriptions[request.id] = @ - 1,
                   !.activeRequests[request.id] = "none"]
    [] OTHER -> s

\* ChannelServer.onRawMessage
onRawMessage(s0, message) ==
  LET s == [s0 EXCEPT !.handled[message.id] = Append(@, message.type)]
      request == [type |-> message.type, id |-> message.id,
                  channelName |-> message.channelName,
                  n |-> Len(s.handled[message.id])]
  IN CASE message.type = Promise -> onPromise(s, request)
       [] message.type = EventListen -> onEventListen(s, request)
       [] message.type = PromiseCancel -> disposeActiveRequest(s, request)
       [] message.type = EventDispose -> disposeActiveRequest(s, request)
       [] OTHER -> s

\* a drain that takes the queue from its end
RECURSIVE flushEachFromEnd(_, _)
flushEachFromEnd(s, queue) ==
  IF queue = <<>> THEN s
  ELSE LET request == Last(queue).request
           cleared == clearTimeout(s, Last(queue).timeoutTimer)
           next == CASE request.type = Promise -> onPromise(cleared, request)
                     [] request.type = EventListen -> onEventListen(cleared, request)
                     [] OTHER -> cleared
       IN flushEachFromEnd(next, SubSeq(queue, 1, Len(queue) - 1))

\* the loop of ChannelServer.flushPendingRequests over the queue
RECURSIVE flushEach(_, _)
flushEach(s, queue) ==
  IF queue = <<>> THEN s
  ELSE LET request == Head(queue).request
           cleared == clearTimeout(s, Head(queue).timeoutTimer)
           next == CASE request.type = Promise -> onPromise(cleared, request)
                     [] request.type = EventListen -> onEventListen(cleared, request)
                     [] OTHER -> cleared
       IN flushEach(next, Tail(queue))

\* ChannelServer.flushPendingRequests: clear each timer, dispatch, drop the queue
flushPendingRequests(s, channelName) ==
  [flushEach(s, s.pendingRequests[channelName])
     EXCEPT !.pendingRequests[channelName] = <<>>]

\* ChannelServer.registerChannel
registerChannel(s, channelName) ==
  [s EXCEPT !.channels = @ \cup {channelName},
            !.flushTasks = Append(@, channelName),
            !.inTime = @ \cup {r \in s.timers : r.channelName = channelName}]

\* ChannelServer.dispose: detach the protocol listener, dispose every handle
\* in activeRequests, clear activeRequests
serverDispose(s) ==
  [s EXCEPT
     !.protocolListener = FALSE,
     !.tokens = [id \in Ids |-> IF s.activeRequests[id] = "call" THEN TRUE ELSE @[id]],
     !.subscriptions =
        [id \in Ids |-> IF s.activeRequests[id] = "event" THEN @[id] - 1 ELSE @[id]],
     !.activeRequests = [id \in Ids |-> "none"]]

(***************************************************************************)
(* ChannelClient                                                           *)
(***************************************************************************)
NoResult == [st |-> "none", v |-> NoValue]
Pending == [st |-> "pending", v |-> NoValue]
Resolved(data) == [st |-> "resolved", v |-> data]
\* rejected with an Error of that name
RejectedError(name) == [st |-> "rejectedError", v |-> name]
\* rejected with the raw payload
RejectedObj(data) == [st |-> "rejectedObj", v |-> data]

\* a future that takes every outcome handed to it
SettleAgain(future, outcome) == outcome

\* c(..) and e(..) of the promise requestPromise returns: only the first settles it
Settle(future, outcome) == IF future.st = "pending" THEN outcome ELSE future

\* a whenInitialized that never waits
whenInitializedAtOnce == "resolved"

\* ChannelClient.whenInitialized: resolved at once when Idle, else on onDidInitialize
whenInitialized == IF state = Idle THEN "resolved" ELSE "pending"

\* continuations of a resolved whenInitialized() that have not run yet (microtasks)
Continuations == {id \in Ids : uninitializedPromise[id] = "resolved"}

\* ChannelClient.requestPromise, up to the return: cancelled tells whether
\* the token handed in was already cancelled
requestPromise(channelName, cancelled) ==
  /\ lastRequestId < MaxRequests
  /\ LET id == lastRequestId IN
       /\ lastRequestId' = id + 1
       /\ requests' = [requests EXCEPT ![id] =
                         [type |-> Promise, channelName |-> channelName]]
       /\ IF cancelled
            THEN /\ result' = [result EXCEPT ![id] = RejectedError(Canceled)]
                 /\ token' = [token EXCEPT ![id] = TRUE]
                 /\ cancelledAt' = [cancelledAt EXCEPT ![id] = "beforeCall"]
                 /\ UNCHANGED <<uninitializedPromise, activeRequests>>
            ELSE /\ result' = [result EXCEPT ![id] = Pending]
                 /\ uninitializedPromise' =
                      [uninitializedPromise EXCEPT ![id] = whenInitialized]
                 /\ activeRequests' = activeRequests \cup {id}
                 /\ UNCHANGED <<token, cancelledAt>>
  /\ UNCHANGED <<state, handlers, listeners, observed, subscribes, wireVars, serverVars, hubVars, codecVars, tickVars, channelClient>>

\* ChannelClient.requestPromise, the continuation of uninitializedPromise:
\* install the handler, send the Promise frame
requestPromiseInitialized(id) ==
  /\ requests[id].type = Promise
  /\ uninitializedPromise[id] = "resolved"
  /\ uninitializedPromise' = [uninitializedPromise EXCEPT ![id] = "null"]
  /\ handlers' = handlers \cup {id}
  /\ sendRequest(Frame(Promise, id, requests[id].channelName, NoValue))
  /\ UNCHANGED <<state, lastRequestId, activeRequests, requests, result, token, cancelledAt,
                 listeners, observed, subscribes, toClient, answered, serverVars, hubVars, codecVars, tickVars, channelClient>>

\* where call id stands: waiting for Initialize, initialized with the
\* continuation still to run, sent and unsettled, or settled
Standing(id) ==
  CASE uninitializedPromise[id] = "pending" -> "waiting"
    [] uninitializedPromise[id] = "resolved" -> "initialized"
    [] result[id].st = "pending" -> "sent"
    [] OTHER -> "settled"

\* a cancel that rejects the future but leaves the initialization wait running
cancelKeepsWaiting(id) ==
  /\ requests[id].type = Promise
  /\ ~token[id]
  /\ id \notin channelClient.disposed
  /\ token' = [token EXCEPT ![id] = TRUE]
  /\ cancelledAt' = [cancelledAt EXCEPT ![id] = Standing(id)]
  /\ IF uninitializedPromise[id] # "null"
       THEN UNCHANGED <<toServer, sent>>
       ELSE sendRequest(Frame(PromiseCancel, id, NoValue, NoValue))
  /\ result' = [result EXCEPT ![id] = Settle(@, RejectedError(Canceled))]
  /\ activeRequests' = activeRequests \ {id}
  /\ UNCHANGED <<state, lastRequestId, handlers, requests, uninitializedPromise,
                 listeners, observed, subscribes, toClient, answered, serverVars, hubVars, codecVars, tickVars, channelClient>>

\* a cancel that sends PromiseCancel and leaves the outcome to the server
cancelAwaitsResponse(id) ==
  /\ requests[id].type = Promise
  /\ ~token[id]
  /\ id \notin channelClient.disposed
  /\ token' = [token EXCEPT ![id] = TRUE]
  /\ cancelledAt' = [cancelledAt EXCEPT ![id] = Standing(id)]
  /\ IF uninitializedPromise[id] # "null"
       THEN /\ uninitializedPromise' = [uninitializedPromise EXCEPT ![id] = "null"]
            /\ result' = [result EXCEPT ![id] = Settle(@, RejectedError(Canceled))]
            /\ activeRequests' = activeRequests \ {id}
            /\ UNCHANGED <<toServer, sent>>
       ELSE /\ sendRequest(Frame(PromiseCancel, id, NoValue, NoValue))
            /\ UNCHANGED <<uninitializedPromise, result, activeRequests>>
  /\ UNCHANGED <<state, lastRequestId, handlers, requests, listeners, observed,
                 subscribes, toClient, answered, serverVars, hubVars, codecVars, tickVars, channelClient>>

\* ChannelClient.requestPromise, cancel: the caller cancels the token of call id
cancel(id) ==
  /\ requests[id].type = Promise
  /\ ~token[id]
  /\ id \notin channelClient.disposed
  /\ token' = [token EXCEPT ![id] = TRUE]
  /\ cancelledAt' = [cancelledAt EXCEPT ![id] = Standing(id)]
  /\ IF uninitializedPromise[id] # "null"
       THEN /\ uninitializedPromise' = [uninitializedPromise EXCEPT ![id] = "null"]
            /\ UNCHANGED <<toServer, sent>>
       ELSE /\ sendRequest(Frame(PromiseCancel, id, NoValue, NoValue))
            /\ UNCHANGED uninitializedPromise
  /\ result' = [result EXCEPT ![id] = Settle(@, RejectedError(Canceled))]
  /\ activeRequests' = activeRequests \ {id}
  /\ UNCHANGED <<state, lastRequestId, handlers, requests, listeners, observed,
                 subscribes, toClient, answered, serverVars, hubVars, codecVars, tickVars, channelClient>>

\* a requestEvent that takes the id without advancing the counter
requestEventSameCounter(channelName) ==
  /\ lastRequestId < MaxRequests
  /\ LET id == lastRequestId IN
       /\ lastRequestId' = id
       /\ requests' = [requests EXCEPT ![id] =
                         [type |-> EventListen, channelName |-> channelName]]
       /\ handlers' = handlers \cup {id}
  /\ UNCHANGED <<state, activeRequests, uninitializedPromise, result, token, cancelledAt,
                 listeners, observed, subscribes, wireVars, serverVars, hubVars, codecVars, tickVars, channelClient>>

\* ChannelClient.requestEvent: issue the id, build the emitter, install the handler
requestEvent(channelName) ==
  /\ lastRequestId < MaxRequests
  /\ LET id == lastRequestId IN
       /\ lastRequestId' = id + 1
       /\ requests' = [requests EXCEPT ![id] =
                         [type |-> EventListen, channelName |-> channelName]]
       /\ handlers' = handlers \cup {id}
  /\ UNCHANGED <<state, activeRequests, uninitializedPromise, result, token, cancelledAt,
                 listeners, observed, subscribes, wireVars, serverVars, hubVars, codecVars, tickVars, channelClient>>

\* emitter.event(listener): subscriber sub listens to the event source of id;
\* the first listener runs onFirstListenerAdd.  Nobody subscribes to an
\* emitter that was disposed
subscribe(id, sub) ==
  /\ requests[id].type = EventListen
  /\ id \notin channelClient.disposed
  /\ sub \notin listeners[id]
  /\ subscribes < MaxSubscribes
  /\ subscribes' = subscribes + 1
  /\ listeners' = [listeners EXCEPT ![id] = @ \cup {sub}]
  /\ uninitializedPromise' =
       IF listeners[id] = {}
         THEN [uninitializedPromise EXCEPT ![id] = whenInitialized]
         ELSE uninitializedPromise
  /\ UNCHANGED <<state, lastRequestId, handlers, activeRequests, requests, result,
                 token, cancelledAt, observed, wireVars, serverVars, hubVars, codecVars, tickVars, channelClient>>

\* ChannelClient.requestEvent, the continuation in onFirstListenerAdd
requestEventInitialized(id) ==
  /\ requests[id].type = EventListen
  /\ uninitializedPromise[id] = "resolved"
  /\ uninitializedPromise' = [uninitializedPromise EXCEPT ![id] = "null"]
  /\ activeRequests' = activeRequests \cup {id}
  /\ sendRequest(Frame(EventListen, id, requests[id].channelName, NoValue))
  /\ UNCHANGED <<state, lastRequestId, handlers, requests, result, token, cancelledAt,
                 listeners, observed, subscribes, toClient, answered, serverVars, hubVars, codecVars, tickVars, channelClient>>

\* a dispose that sends EventDispose for every listener removed after the
\* EventListen frame went out
unsubscribeDisposesEach(id, sub) ==
  /\ requests[id].type = EventListen
  /\ sub \in listeners[id]
  /\ listeners' = [listeners EXCEPT ![id] = @ \ {sub}]
  /\ IF uninitializedPromise[id] # "null"
       THEN /\ uninitializedPromise' =
                 IF listeners[id] = {sub}
                   THEN [uninitializedPromise EXCEPT ![id] = "null"]
                   ELSE uninitializedPromise
            /\ UNCHANGED <<activeRequests, toServer, sent>>
       ELSE /\ activeRequests' = activeRequests \ {id}
            /\ sendRequest(Frame(EventDispose, id, NoValue, NoValue))
            /\ UNCHANGED uninitializedPromise
  /\ UNCHANGED <<state, lastRequestId, handlers, requests, result, token, cancelledAt,
                 observed, subscribes, toClient, answered, serverVars, hubVars, codecVars, tickVars, channelClient>>

\* the listener's dispose: the last listener runs onLastListenerRemove
unsubscribe(id, sub) ==
  /\ requests[id].type = EventListen
  /\ sub \in listeners[id]
  /\ listeners' = [listeners EXCEPT ![id] = @ \ {sub}]
  /\ IF listeners[id] # {sub}
       THEN UNCHANGED <<uninitializedPromise, activeRequests, toServer, sent>>
       ELSE IF uninitializedPromise[id] # "null"
         THEN /\ uninitializedPromise' = [uninitializedPromise EXCEPT ![id] = "null"]
              /\ UNCHANGED <<activeRequests, toServer, sent>>
         ELSE /\ activeRequests' = activeRequests \ {id}
              /\ sendRequest(Frame(EventDispose, id, NoValue, NoValue))
              /\ UNCHANGED uninitializedPromise
  /\ UNCHANGED <<state, lastRequestId, handlers, requests, result, token, cancelledAt,
                 observed, subscribes, toClient, answered, serverVars, hubVars, codecVars, tickVars, channelClient>>

\* the handler requestPromise installs under id
promiseHandler(id, response) ==
  CASE response.type = PromiseSuccess ->
         /\ handlers' = handlers \ {id}
         /\ result' = [result EXCEPT ![id] = Settle(@, Resolved(response.data))]
         /\ activeRequests' = activeRequests \ {id}
    [] response.type = PromiseError ->
         /\ handlers' = handlers \ {id}
         /\ result' = [result EXCEPT ![id] = Settle(@, RejectedError(response.data))]
         /\ activeRequests' = activeRequests \ {id}
    [] response.type = PromiseErrorObj ->
         /\ handlers' = handlers \ {id}
         /\ result' = [result EXCEPT ![id] = Settle(@, RejectedObj(response.data))]
         /\ activeRequests' = activeRequests \ {id}
    [] OTHER -> UNCHANGED <<handlers, result, activeRequests>>

\* emitter.fire(data): every current listener is called with the data
fire(id, data) ==
  [sub \in Subscribers |->
     IF sub \in listeners[id] THEN Append(observed[sub], <<id, data>>)
     ELSE observed[sub]]

\* ChannelClient.onResponse
onResponse(response) ==
  IF response.type = Initialize
    THEN /\ state' = Idle
         /\ channelClient' = [channelClient EXCEPT !.onDidInitialize = @ + 1]
         /\ uninitializedPromise' =
              [id \in Ids |-> IF uninitializedPromise[id] = "pending"
                                THEN "resolved" ELSE uninitializedPromise[id]]
         /\ UNCHANGED <<handlers, result, activeRequests, observed>>
    ELSE /\ UNCHANGED <<state, uninitializedPromise, channelClient>>
         /\ IF response.id \notin handlers
              THEN UNCHANGED <<handlers, result, activeRequests, observed>>
              ELSE IF requests[response.id].type = Promise
                THEN /\ promiseHandler(response.id, response)
                     /\ UNCHANGED observed
                ELSE /\ observed' = fire(response.id, response.data)
                     /\ UNCHANGED <<handlers, result, activeRequests>>

\* ChannelClient.onBuffer: the transport delivers the next response frame; the
\* continuations queued by earlier work run before the next message is handled.
\* With the protocolListener detached the frame reaches nobody
onBuffer ==
  /\ toClient # <<>>
  /\ Continuations = {}
  /\ toClient' = Tail(toClient)
  /\ IF channelClient.protocolListener
       THEN onResponse(Head(toClient))
       ELSE UNCHANGED <<state, uninitializedPromise, handlers, result,
                        activeRequests, observed, channelClient>>
  /\ UNCHANGED <<lastRequestId, requests, token, cancelledAt, listeners,
                 subscribes, toServer, sent, answered, serverVars, hubVars, codecVars, tickVars>>

\* a further ChannelServer is constructed on the peer's end of the protocol:
\* its constructor sends Initialize to the same ChannelClient
inboundInitialize ==
  /\ channelClient.onDidInitialize
       + Cardinality({i \in 1 .. Len(toClient) : toClient[i].type = Initialize})
         < MaxInitialize
  /\ toClient' = Append(toClient, Frame(Initialize, -1, NoValue, NoValue))
  /\ UNCHANGED <<clientVars, toServer, sent, answered, serverVars, hubVars,
                 codecVars, tickVars>>

\* the orders in which a forEach may visit a set whose insertion order the
\* model does not keep
Orders(S) ==
  {o \in [1 .. Cardinality(S) -> S] :
     \A i, j \in 1 .. Cardinality(S) : i # j => o[i] # o[j]}

\* the frames the handles of activeRequests send when disposed in the order:
\* the cancel of a call that was sent sends PromiseCancel; the dispose of an
\* emitter, when it runs onLastListenerRemove, sends EventDispose
RECURSIVE disposeFrames(_, _)
disposeFrames(order, runsLast) ==
  IF order = <<>> THEN <<>>
  ELSE LET id == Head(order)
           frames ==
             IF uninitializedPromise[id] # "null" THEN <<>>
             ELSE IF requests[id].type = Promise
               THEN <<Frame(PromiseCancel, id, NoValue, NoValue)>>
               ELSE IF runsLast
                 THEN <<Frame(EventDispose, id, NoValue, NoValue)>>
                 ELSE <<>>
       IN frames \o disposeFrames(Tail(order), runsLast)

\* a dispose that forgets the handles without disposing them
ChannelClientDisposeForgets ==
  /\ channelClient.protocolListener
  /\ channelClient' = [channelClient EXCEPT !.protocolListener = FALSE]
  /\ activeRequests' = {}
  /\ UNCHANGED <<state, lastRequestId, handlers, requests, uninitializedPromise,
                 result, token, cancelledAt, listeners, observed, subscribes,
                 wireVars, serverVars, hubVars, codecVars, tickVars>>

\* ChannelClient.dispose: detach the protocol listener, dispose every handle in
\* activeRequests (the cancel and the token listener of a call, the emitter
\* of an event source), clear activeRequests.  Emitter.dispose drops the
\* listeners; runsLast tells whether it runs onLastListenerRemove
ChannelClientDispose ==
  /\ channelClient.protocolListener
  /\ \E order \in Orders(activeRequests), runsLast \in BOOLEAN :
       /\ sendRequests(disposeFrames(order, runsLast))
       /\ uninitializedPromise' =
            [id \in Ids |->
               IF id \in activeRequests /\ (requests[id].type = Promise \/ runsLast)
                 THEN "null" ELSE uninitializedPromise[id]]
  /\ result' =
       [id \in Ids |->
          IF id \in activeRequests /\ requests[id].type = Promise
            THEN Settle(result[id], RejectedError(Canceled)) ELSE result[id]]
  /\ listeners' =
       [id \in Ids |->
          IF id \in activeRequests /\ requests[id].type = EventListen
            THEN {} ELSE listeners[id]]
  /\ activeRequests' = {}
  /\ channelClient' = [channelClient EXCEPT !.protocolListener = FALSE,
                                            !.disposed = @ \cup activeRequests]
  /\ UNCHANGED <<state, lastRequestId, handlers, requests, token, cancelledAt,
                 observed, subscribes, toClient, answered, serverVars, hubVars,
                 codecVars, tickVars>>

(***************************************************************************)
(* ChannelServer: what runs it                                             *)
(***************************************************************************)
\* protocol.onMessage of the ChannelServer: the transport delivers the next
\* request frame; with the protocolListener detached it reaches nobody
serverOnMessage ==
  /\ toServer # <<>>
  /\ toServer' = Tail(toServer)
  /\ channelServer' =
       IF channelServer.protocolListener
         THEN onRawMessage(channelServer, Head(toServer))
         ELSE channelServer
  /\ UNCHANGED <<hubVars, codecVars, tickVars, clientVars, toClient, sent, answered, registers, fires>>

\* the owner of the server registers a channel under the name
RegisterChannel(channelName) ==
  /\ registers < MaxRegister
  /\ registers' = registers + 1
  /\ channelServer' = registerChannel(channelServer, channelName)
  /\ UNCHANGED <<hubVars, codecVars, tickVars, clientVars, wireVars, fires>>

\* the task registerChannel deferred with setTimeout(.., 0) runs
FlushTask ==
  /\ channelServer.flushTasks # <<>>
  /\ channelServer' =
       [flushPendingRequests(channelServer, Head(channelServer.flushTasks))
          EXCEPT !.flushTasks = Tail(channelServer.flushTasks)]
  /\ UNCHANGED <<hubVars, codecVars, tickVars, clientVars, wireVars, registers, fires>>

\* the timer collectPendingRequest armed for the request fires
Timeout(request) ==
  /\ request \in channelServer.timers
  /\ channelServer' = [channelServer EXCEPT !.timers = @ \ {request},
                                            !.fired = @ \cup {request}]
  /\ IF request.type = Promise
       THEN sendResponse(<<Frame(PromiseError, request.id, NoValue, UnknownChannel)>>)
       ELSE UNCHANGED <<toClient, answered>>
  /\ UNCHANGED <<hubVars, codecVars, tickVars, clientVars, toServer, sent, registers, fires>>

TimeoutFires == \E request \in channelServer.timers : Timeout(request)

\* what the promise channel.call returned can settle with: a value, an Error
\* (by its name and message), a payload that is no Error
ServiceOutcomes ==
  {Resolved(d) : d \in Values} \cup {RejectedError(d) : d \in Values}
    \cup {RejectedObj(d) : d \in Values}

\* a promise.then that reports every rejection as PromiseError
onPromiseSettledAsError(id, outcome) ==
  IF outcome.st = "resolved"
    THEN Frame(PromiseSuccess, id, NoValue, outcome.v)
    ELSE Frame(PromiseError, id, NoValue, outcome.v)

\* ChannelServer.onPromise, promise.then: the response for the outcome
onPromiseSettled(id, outcome) ==
  CASE outcome.st = "resolved" -> Frame(PromiseSuccess, id, NoValue, outcome.v)
    [] outcome.st = "rejectedError" -> Frame(PromiseError, id, NoValue, outcome.v)
    [] OTHER -> Frame(PromiseErrorObj, id, NoValue, outcome.v)

\* ChannelServer.onPromise, promise.then: the promise channel.call returned (or
\* the rejection a synchronous throw was turned into) settles
Settled(id, outcome) ==
  /\ channelServer.calls[id] = "running"
  /\ channelServer' = [channelServer EXCEPT !.calls[id] = "settled",
                                            !.outcomes[id] = outcome,
                                            !.activeRequests[id] = "none"]
  /\ sendResponse(<<onPromiseSettled(id, outcome)>>)
  /\ UNCHANGED <<hubVars, codecVars, tickVars, clientVars, toServer, sent, registers, fires>>

\* the owner of the server disposes it
ChannelServerDispose ==
  /\ channelServer.protocolListener
  /\ channelServer' = serverDispose(channelServer)
  /\ UNCHANGED <<hubVars, codecVars, tickVars, clientVars, wireVars, registers, fires>>

\* n copies of a frame
RECURSIVE Copies(_, _)
Copies(n, frame) == IF n = 0 THEN <<>> ELSE <<frame>> \o Copies(n - 1, frame)

\* ChannelServer.onEventListen, the listener: the event a subscription under
\* id listens to fires, and each live listener sends EventFire(id)
EventFired(id, data) ==
  /\ channelServer.subscriptions[id] > 0
  /\ fires < MaxFires
  /\ fires' = fires + 1
  /\ sendResponse(Copies(channelServer.subscriptions[id],
                         Frame(EventFire, id, NoValue, data)))
  /\ UNCHANGED <<hubVars, codecVars, tickVars, clientVars, toServer, sent, channelServer, registers>>

(***************************************************************************)
(* The wire codec.  A byte buffer is a sequence of 0..255.  A value is a   *)
(* record tagged by what serialize takes it for:                           *)
(*   [t |-> "undefined"]                                                   *)
(*   [t |-> "string", chars |-> sequence of code points]                   *)
(*   [t |-> "Buffer", bytes |-> bytes]      a native byte buffer           *)
(*   [t |-> "VSBuffer", bytes |-> bytes]                                   *)
(*   [t |-> "Array", els |-> sequence of values]                           *)
(*   [t |-> "Object", json |-> a JSON value]  anything else: JSON.stringify*)
(* A JSON value is [j |-> "null"], [j |-> "number", n |-> digit] or        *)
(* [j |-> "record", k |-> code points, s |-> code points] for {k: s}.      *)
(***************************************************************************)
Undefined == [t |-> "undefined"]
String(chars) == [t |-> "string", chars |-> chars]
VSBufferOf(bytes) == [t |-> "VSBuffer", bytes |-> bytes]
Array(els) == [t |-> "Array", els |-> els]
Object(json) == [t |-> "Object", json |-> json]

\* DataType
DataTypeUndefined == 0
DataTypeString == 1
DataTypeBuffer == 2
DataTypeVSBuffer == 3
DataTypeArray == 4
DataTypeObject == 5

\* VSBuffer.concat over a list of buffers
RECURSIVE concat(_)
concat(buffers) ==
  IF buffers = <<>> THEN <<>> ELSE Head(buffers) \o concat(Tail(buffers))

\* VSBuffer.fromString: the UTF-8 bytes of a string (code points below 2048)
RECURSIVE fromString(_)
fromString(chars) ==
  IF chars = <<>> THEN <<>>
  ELSE LET c == Head(chars) IN
       (IF c < 128 THEN <<c>> ELSE <<192 + (c \div 64), 128 + (c % 64)>>)
         \o fromString(Tail(chars))

\* VSBuffer.toString: decode UTF-8; a malformed byte decodes to U+FFFD
RECURSIVE toString(_)
toString(bytes) ==
  IF bytes = <<>> THEN <<>>
  ELSE LET b == Head(bytes) IN
       IF b < 128 THEN <<b>> \o toString(Tail(bytes))
       ELSE IF b >= 194 /\ b < 224 /\ Len(bytes) >= 2
                 /\ bytes[2] >= 128 /\ bytes[2] < 192
         THEN <<(b - 192) * 64 + (bytes[2] - 128)>> \o toString(Tail(Tail(bytes)))
         ELSE <<65533>> \o toString(Tail(bytes))

\* JSON.stringify, as code points
JSONstringify(json) ==
  CASE json.j = "null" -> <<110, 117, 108, 108>>
    [] json.j = "number" -> <<48 + json.n>>
    [] json.j = "record" ->
         <<123, 34>> \o json.k \o <<34, 58, 34>> \o json.s \o <<34, 125>>

\* a size buffer that counts one byte too many
createSizeBufferOneMore(size) == <<0, 0, 0, (size + 1) % 256>>

\* createSizeBuffer: writeUInt32BE
createSizeBuffer(size) ==
  <<(size \div 16777216) % 256, (size \div 65536) % 256,
    (size \div 256) % 256, size % 256>>

\* createOneByteBuffer: writeUInt8
createOneByteBuffer(value) == <<value % 256>>

\* serialize: the buffers handed to writer.write, in order, concatenated as
\* BufferWriter.buffer does
RECURSIVE serialize(_), serializeEach(_)
serialize(data) ==
  CASE data.t = "undefined" -> createOneByteBuffer(DataTypeUndefined)
    [] data.t = "string" ->
         LET buffer == fromString(data.chars)
         IN concat(<<createOneByteBuffer(DataTypeString),
                     createSizeBuffer(Len(buffer)), buffer>>)
    [] data.t = "Buffer" ->
         concat(<<createOneByteBuffer(DataTypeBuffer),
                  createSizeBuffer(Len(data.bytes)), data.bytes>>)
    [] data.t = "VSBuffer" ->
         concat(<<createOneByteBuffer(DataTypeVSBuffer),
                  createSizeBuffer(Len(data.bytes)), data.bytes>>)
    [] data.t = "Array" ->
         concat(<<createOneByteBuffer(DataTypeArray),
                  createSizeBuffer(Len(data.els)), serializeEach(data.els)>>)
    [] OTHER ->
         LET buffer == fromString(JSONstringify(data.json))
         IN concat(<<createOneByteBuffer(DataTypeObject),
                     createSizeBuffer(Len(buffer)), buffer>>)

\* the loop of serialize over the elements of an array
serializeEach(els) ==
  IF els = <<>> THEN <<>> ELSE serialize(Head(els)) \o serializeEach(Tail(els))

\* new BufferReader(buffer)
BufferReader(buffer) == [buffer |-> buffer, pos |-> 0]

\* BufferReader.read: the slice, and the reader advanced by its length
read(reader, bytes) ==
  LET last == IF reader.pos + bytes < Len(reader.buffer)
                THEN reader.pos + bytes ELSE Len(reader.buffer)
      slice == SubSeq(reader.buffer, reader.pos + 1, last)
  IN [result |-> slice, reader |-> [reader EXCEPT !.pos = @ + Len(slice)]]

\* readSizeBuffer: readUInt32BE of the next four bytes
readSizeBuffer(reader) ==
  LET r == read(reader, 4)
      b == r.result \o <<0, 0, 0, 0>>
  IN [size |-> b[1] * 16777216 + b[2] * 65536 + b[3] * 256 + b[4],
      reader |-> r.reader]

\* the JSON values of the model
JsonValues ==
  {[j |-> "null"]} \cup {[j |-> "number", n |-> n] : n \in 0 .. 1}
    \cup {[j |-> "record", k |-> <<107>>, s |-> s] : s \in {<<>>, <<97>>, <<233>>}}

\* JSON.parse: the value whose JSON text this is
JSONparse(text) ==
  IF \E json \in JsonValues : JSONstringify(json) = text
    THEN CHOOSE json \in JsonValues : JSONstringify(json) = text
    ELSE [j |-> "SyntaxError"]

\* deserialize: the value read, and the reader after it
RECURSIVE deserialize(_), deserializeEach(_, _, _)
deserialize(reader) ==
  LET tag == read(reader, 1)
      type == IF tag.result = <<>> THEN -1 ELSE tag.result[1]
      size == readSizeBuffer(tag.reader)
      content == read(size.reader, size.size)
  IN CASE type = DataTypeString ->
            [value |-> String(toString(content.result)), reader |-> content.reader]
       [] type = DataTypeBuffer ->
            [value |-> [t |-> "Buffer", bytes |-> content.result], reader |-> content.reader]
       [] type = DataTypeVSBuffer ->
            [value |-> VSBufferOf(content.result), reader |-> content.reader]
       [] type = DataTypeArray -> deserializeEach(size.reader, size.size, <<>>)
       [] type = DataTypeObject ->
            [value |-> Object(JSONparse(toString(content.result))),
             reader |-> content.reader]
       [] OTHER -> [value |-> Undefined, reader |-> tag.reader]

\* the loop of deserialize over the elements of an array
deserializeEach(reader, length, els) ==
  IF Len(els) >= length THEN [value |-> Array(els), reader |-> reader]
  ELSE LET el == deserialize(reader)
       IN deserializeEach(el.reader, length, Append(els, el.value))

\* the codec at rest
CodecIdle == [phase |-> "idle"]

\* sequences over S of length up to n
SeqsUpTo(S, n) == UNION {[1 .. k -> S] : k \in 0 .. n}

\* the values put through the codec: undefined, strings over 'a' and U+00E9,
\* VSBuffers, JSON values, and arrays of a few of those and of arrays
CodecScalars ==
  {Undefined}
    \cup {String(s) : s \in SeqsUpTo({97, 233}, MaxLen)}
    \cup {VSBufferOf(b) : b \in SeqsUpTo({0, 255}, MaxLen)}
    \cup {Object(json) : json \in JsonValues}
CodecElements ==
  {Undefined, String(<<233>>), VSBufferOf(<<255>>),
   Object([j |-> "record", k |-> <<107>>, s |-> <<233>>]),
   Array(<<>>), Array(<<String(<<97>>), Undefined>>)}
CodecValues == CodecScalars \cup {Array(els) : els \in SeqsUpTo(CodecElements, MaxLen)}

\* a message to send: a header value and a body value
CodecInit ==
  codec \in {[phase |-> "input", header |-> h, body |-> b, buffer |-> <<>>,
              pos |-> <<>>, got |-> <<>>] : h, b \in CodecValues}

\* send(header, body): serialize both into one writer, hand over its buffer
codecSend ==
  /\ codec.phase = "input"
  /\ codec' = [codec EXCEPT
       !.phase = "sent",
       !.buffer = concat(<<serialize(codec.header), serialize(codec.body)>>)]
  /\ UNCHANGED <<clientVars, wireVars, serverVars, hubVars, tickVars>>

\* onRawMessage / onBuffer: one reader, deserialize the header, then the body
codecReceive ==
  /\ codec.phase = "sent"
  /\ LET header == deserialize(BufferReader(codec.buffer))
         body == deserialize(header.reader)
     IN codec' = [codec EXCEPT
          !.phase = "received",
          !.got = <<header.value, body.value>>,
          !.pos = <<header.reader.pos, body.reader.pos>>]
  /\ UNCHANGED <<clientVars, wireVars, serverVars, hubVars, tickVars>>

(***************************************************************************)
(* IPCServer, the hub.  hub is a record:                                   *)
(*   channels     channel name -> the channel registered on the hub under  *)
(*                it (0: none); channels are numbered as registered        *)
(*   connections  the _connections set, in insertion order, each           *)
(*                connection named by its peer                             *)
(*   peers        peer -> [st, ctx, toHub, toPeer, channels, state,        *)
(*                connectionCtx]: where the peer stands ("none", "failed", *)
(*                "connecting", "joined", "gone"), the ctx its IPCClient   *)
(*                was built with, the messages in flight to the hub, the   *)
(*                messages the hub side sent on its protocol, the channels *)
(*                of the connection's ChannelServer, the state of the      *)
(*                connection's ChannelClient, the connection's ctx         *)
(*   routes       route -> [st, type, snapshot, i, connection]: a call or  *)
(*                listen through getChannel(name, StaticRouter(fn)):       *)
(*                "none", "evaluating" fn on snapshot[i], "parked" on      *)
(*                onDidChangeConnections, "woken" by it, "resolved" to a   *)
(*                connection, "sent"                                       *)
(*   registers    registerChannel calls on the hub so far                  *)
(*   escaped      the peers whose IPCClient constructor threw              *)
(***************************************************************************)
Peers == 1 .. MaxPeers
Routes == 1 .. MaxRoutes
\* the contexts peers connect with: "A" and "C"
Contexts == {String(<<65>>), String(<<67>>)}
\* the predicate the StaticRouter is built with: ctx === "C"
fn(ctx) == ctx = String(<<67>>)

Message(type, route, buffer) == [type |-> type, route |-> route, buffer |-> buffer]

NoPeer ==
  [st |-> "none", ctx |-> Undefined, toHub |-> <<>>, toPeer |-> <<>>,
   channels |-> [c \in ChannelNames |-> 0], state |-> Uninitialized,
   connectionCtx |-> Undefined]

NoRoute == [st |-> "none", type |-> 0, snapshot |-> <<>>, i |-> 0, connection |-> 0]

\* new IPCServer(onDidClientConnect)
IPCServerNew ==
  [channels |-> [c \in ChannelNames |-> 0],
   connections |-> <<>>,
   peers |-> [p \in Peers |-> NoPeer],
   routes |-> [r \in Routes |-> NoRoute],
   registers |-> 0,
   escaped |-> {}]

\* sendBuffer of ChannelServer and ChannelClient: a send that throws is swallowed
sendBuffer(sentSoFar, message, ok) ==
  IF ok THEN Append(sentSoFar, message) ELSE sentSoFar

\* continuations of a fired onDidChangeConnections that have not run yet
Woken == {r \in Routes : hub.routes[r].st = "woken"}

\* new IPCClient(protocol, ctx) at peer p, peers numbered as they come: send the serialized ctx, then build
\* the ChannelClient and the ChannelServer, whose constructor sends Initialize.
\* handshakeOk, initializeOk: whether protocol.send returns or throws
IPCClientNew(p, ctx, handshakeOk, initializeOk) ==
  /\ hub.peers[p].st = "none"
  /\ \A q \in 1 .. (p - 1) : hub.peers[q].st # "none"
  /\ hub' =
       IF ~handshakeOk
         THEN [hub EXCEPT !.peers[p].st = "failed", !.peers[p].ctx = ctx,
                          !.escaped = @ \cup {p}]
         ELSE [hub EXCEPT !.peers[p].st = "connecting", !.peers[p].ctx = ctx,
                          !.peers[p].toHub =
                             sendBuffer(<<Message(0, 0, serialize(ctx))>>,
                                        Message(Initialize, 0, <<>>), initializeOk)]
  /\ UNCHANGED <<clientVars, wireVars, serverVars, codecVars, tickVars>>

\* IPCServer, onFirstMessage: read the ctx, build the ChannelServer (its
\* constructor sends Initialize) and the ChannelClient, register the hub's
\* channels, add the connection, fire onDidChangeConnections
onFirstMessage(p, initializeOk) ==
  /\ hub.peers[p].st = "connecting"
  /\ Woken = {}
  /\ LET msg == Head(hub.peers[p].toHub)
         ctx == deserialize(BufferReader(msg.buffer)).value
     IN hub' = [hub EXCEPT
          !.peers[p].st = "joined",
          !.peers[p].toHub = Tail(@),
          !.peers[p].connectionCtx = ctx,
          !.peers[p].toPeer = sendBuffer(@, Message(Initialize, 0, <<>>), initializeOk),
          !.peers[p].channels = hub.channels,
          !.connections = Append(@, p),
          !.routes = [r \in Routes |->
                        IF hub.routes[r].st = "parked"
                          THEN [hub.routes[r] EXCEPT !.st = "woken"]
                          ELSE hub.routes[r]]]
  /\ UNCHANGED <<clientVars, wireVars, serverVars, codecVars, tickVars>>

\* ChannelClient.onBuffer of a connection: Initialize from the peer arrives
hubOnBuffer(p) ==
  /\ hub.peers[p].st = "joined"
  /\ hub.peers[p].toHub # <<>>
  /\ Woken = {}
  /\ hub' = [hub EXCEPT !.peers[p].toHub = Tail(@), !.peers[p].state = Idle]
  /\ UNCHANGED <<clientVars, wireVars, serverVars, codecVars, tickVars>>

\* IPCServer, onDidClientDisconnect: dispose both halves, drop the connection
onDidClientDisconnect(p) ==
  /\ hub.peers[p].st = "joined"
  /\ Woken = {}
  /\ hub' = [hub EXCEPT
       !.peers[p].st = "gone",
       !.connections = SelectSeq(@, LAMBDA c : c # p)]
  /\ UNCHANGED <<clientVars, wireVars, serverVars, codecVars, tickVars>>

\* a registerChannel that leaves the attached ChannelServers alone
hubRegisterChannelHubOnly(channelName) ==
  /\ hub.registers < MaxHubRegisters
  /\ hub' = [hub EXCEPT !.registers = @ + 1,
                        !.channels[channelName] = hub.registers + 1]
  /\ UNCHANGED <<clientVars, wireVars, serverVars, codecVars, tickVars>>

\* IPCServer.registerChannel: set it on the hub and on every connection
hubRegisterChannel(channelName) ==
  /\ hub.registers < MaxHubRegisters
  /\ LET channel == hub.registers + 1
     IN hub' = [hub EXCEPT
          !.registers = @ + 1,
          !.channels[channelName] = channel,
          !.peers = [p \in Peers |->
                       IF \E i \in 1 .. Len(hub.connections) : hub.connections[i] = p
                         THEN [hub.peers[p] EXCEPT !.channels[channelName] = channel]
                         ELSE hub.peers[p]]]
  /\ UNCHANGED <<clientVars, wireVars, serverVars, codecVars, tickVars>>

\* StaticRouter.route, up to its first await: over the connections of the
\* moment, call fn on the first; with none, wait for onDidChangeConnections
route(rt, connections) ==
  IF connections = <<>>
    THEN [rt EXCEPT !.st = "parked", !.snapshot = <<>>, !.i = 0]
    ELSE [rt EXCEPT !.st = "evaluating", !.snapshot = connections, !.i = 1]

\* IPCServer.getChannel(..).call / listen: ask the router
routeCall(r, type) ==
  /\ hub.routes[r].st = "none"
  /\ \A q \in 1 .. (r - 1) : hub.routes[q].st # "none"
  /\ hub' = [hub EXCEPT !.routes[r] =
               route([hub.routes[r] EXCEPT !.type = type], hub.connections)]
  /\ UNCHANGED <<clientVars, wireVars, serverVars, codecVars, tickVars>>

\* a router that takes the connection at hand whatever fn says
routeEvaluatedAny(r) ==
  /\ hub.routes[r].st = "evaluating"
  /\ hub' = [hub EXCEPT !.routes[r].st = "resolved",
                        !.routes[r].connection =
                           hub.routes[r].snapshot[hub.routes[r].i]]
  /\ UNCHANGED <<clientVars, wireVars, serverVars, codecVars, tickVars>>

\* StaticRouter.route, after await fn(connection.ctx): return the connection,
\* go on to the next, or wait for onDidChangeConnections
routeEvaluated(r) ==
  /\ hub.routes[r].st = "evaluating"
  /\ LET rt == hub.routes[r]
         connection == rt.snapshot[rt.i]
     IN hub' = [hub EXCEPT !.routes[r] =
          IF fn(hub.peers[connection].connectionCtx)
            THEN [rt EXCEPT !.st = "resolved", !.connection = connection]
            ELSE IF rt.i < Len(rt.snapshot)
              THEN [rt EXCEPT !.i = @ + 1]
              ELSE [rt EXCEPT !.st = "parked"]]
  /\ UNCHANGED <<clientVars, wireVars, serverVars, codecVars, tickVars>>

\* StaticRouter.route, after await Event.toPromise(hub.onDidChangeConnections):
\* route again
routeAgain(r) ==
  /\ hub.routes[r].st = "woken"
  /\ hub' = [hub EXCEPT !.routes[r] = route(hub.routes[r], hub.connections)]
  /\ UNCHANGED <<clientVars, wireVars, serverVars, codecVars, tickVars>>

\* getDelayedChannel(..).call / listen on the routed connection: its
\* ChannelClient, once initialized, sends the request frame
routedRequest(r, ok) ==
  /\ hub.routes[r].st = "resolved"
  /\ hub.peers[hub.routes[r].connection].state = Idle
  /\ hub' = [hub EXCEPT
       !.routes[r].st = "sent",
       !.peers[hub.routes[r].connection].toPeer =
          sendBuffer(@, Message(hub.routes[r].type, r, <<>>), ok)]
  /\ UNCHANGED <<clientVars, wireVars, serverVars, codecVars, tickVars>>

(***************************************************************************)
(* getNextTickChannel(channel).  tick is a record:                         *)
(*   didTick    the flag of the closure                                    *)
(*   issued     the operations issued on the wrapper so far                *)
(*   timers     the operations whose timeout(0) has not fired, in the      *)
(*              order the timers were set                                  *)
(*   forwarded  the operations handed to channel.call / channel.listen of  *)
(*              the underlying channel, in order                           *)
(* An operation is [n, type]: the n-th issued, a call or a listen.         *)
(***************************************************************************)
\* getNextTickChannel(channel): the wrapper just made
getNextTickChannel ==
  [didTick |-> FALSE, issued |-> 0, timers |-> <<>>, forwarded |-> <<>>]

\* call / listen on the wrapper: forwarded at once when didTick, else after a
\* timeout(0) of its own
tickCall(type) ==
  /\ tick.issued < MaxTickCalls
  /\ LET op == [n |-> tick.issued + 1, type |-> type]
     IN tick' =
          IF tick.didTick
            THEN [tick EXCEPT !.issued = @ + 1, !.forwarded = Append(@, op)]
            ELSE [tick EXCEPT !.issued = @ + 1, !.timers = Append(@, op)]
  /\ UNCHANGED <<clientVars, wireVars, serverVars, hubVars, codecVars>>

\* the timeout(0) set first fires: its continuations set didTick and forward
\* the operation, before any other task runs
tickTimeout ==
  /\ tick.timers # <<>>
  /\ tick' = [tick EXCEPT !.didTick = TRUE,
                          !.timers = Tail(@),
                          !.forwarded = Append(@, Head(tick.timers))]
  /\ UNCHANGED <<clientVars, wireVars, serverVars, hubVars, codecVars>>

(***************************************************************************)
(* The system: both ends constructed, the server's Initialize on its way   *)
(***************************************************************************)
\* a constructor that announces itself twice
ChannelServerConstructorTwice ==
  <<Frame(Initialize, -1, NoValue, NoValue), Frame(Initialize, -1, NoValue, NoValue)>>

\* the ChannelServer constructor: the responses it sends
ChannelServerConstructor == <<Frame(Initialize, -1, NoValue, NoValue)>>

\* a ChannelClient and a ChannelServer just constructed
ChannelsInit ==
  /\ state = Uninitialized
  /\ lastRequestId = 0
  /\ handlers = {}
  /\ activeRequests = {}
  /\ requests = [id \in Ids |-> [type |-> 0, channelName |-> NoValue]]
  /\ uninitializedPromise = [id \in Ids |-> "null"]
  /\ result = [id \in Ids |-> NoResult]
  /\ token = [id \in Ids |-> FALSE]
  /\ cancelledAt = [id \in Ids |-> "never"]
  /\ listeners = [id \in Ids |-> {}]
  /\ observed = [sub \in Subscribers |-> <<>>]
  /\ subscribes = 0
  /\ channelClient = [protocolListener |-> TRUE, onDidInitialize |-> 0, disposed |-> {}]
  /\ toServer = <<>>
  /\ toClient = ChannelServerConstructor
  /\ sent = [id \in Ids |-> <<>>]
  /\ answered = [id \in Ids |-> <<>>]
  /\ channelServer =
       [channels |-> {},
        activeRequests |-> [id \in Ids |-> "none"],
        pendingRequests |-> [c \in ChannelNames |-> <<>>],
        timers |-> {},
        fired |-> {},
        collected |-> {},
        inTime |-> {},
        handled |-> [id \in Ids |-> <<>>],
        flushTasks |-> <<>>,
        calls |-> [id \in Ids |-> "none"],
        tokens |-> [id \in Ids |-> FALSE],
        outcomes |-> [id \in Ids |-> NoResult],
        subscriptions |-> [id \in Ids |-> 0],
        dispatched |-> <<>>,
        protocolListener |-> TRUE]
  /\ registers = 0
  /\ fires = 0

Init ==
  /\ ChannelsInit
  /\ hub = IPCServerNew
  /\ codec = CodecIdle
  /\ tick = getNextTickChannel

Next ==
  \/ \E c \in ChannelNames, cancelled \in BOOLEAN : requestPromise(c, cancelled)
  \/ \E id \in Ids : requestPromiseInitialized(id)
  \/ \E id \in Ids : cancel(id)
  \/ \E c \in ChannelNames : requestEvent(c)
  \/ \E id \in Ids, sub \in Subscribers : subscribe(id, sub)
  \/ \E id \in Ids : requestEventInitialized(id)
  \/ \E id \in Ids, sub \in Subscribers : unsubscribe(id, sub)
  \/ onBuffer
  \/ serverOnMessage
  \/ \E c \in ChannelNames : RegisterChannel(c)
  \/ FlushTask
  \/ TimeoutFires
  \/ \E id \in Ids, outcome \in ServiceOutcomes : Settled(id, outcome)
  \/ \E id \in Ids, data \in Values : EventFired(id, data)

Spec == Init /\ [][Next]_vars

(***************************************************************************)
(* The same, with an owner that disposes the ChannelServer at any moment,  *)
(* and with an owner that disposes the ChannelClient at any moment         *)
(***************************************************************************)
ServerDisposeNext ==
  \/ Next
  \/ ChannelServerDispose

ServerDisposeSpec == Init /\ [][ServerDisposeNext]_vars

ClientDisposeNext ==
  \/ Next
  \/ ChannelClientDispose

ClientDisposeSpec == Init /\ [][ClientDisposeNext]_vars

(***************************************************************************)
(* The same, with a peer that sends Initialize more than once              *)
(***************************************************************************)
InboundNext ==
  \/ Next
  \/ inboundInitialize

InboundSpec == Init /\ [][InboundNext]_vars

(***************************************************************************)
(* The hub with its peers and routes                                       *)
(***************************************************************************)
HubNext ==
  \/ \E p \in Peers, ctx \in Contexts, handshakeOk, initializeOk \in BOOLEAN :
       IPCClientNew(p, ctx, handshakeOk, initializeOk)
  \/ \E p \in Peers, initializeOk \in BOOLEAN : onFirstMessage(p, initializeOk)
  \/ \E p \in Peers : hubOnBuffer(p)
  \/ \E p \in Peers : onDidClientDisconnect(p)
  \/ \E c \in ChannelNames : hubRegisterChannel(c)
  \/ \E r \in Routes, type \in {Promise, EventListen} : routeCall(r, type)
  \/ \E r \in Routes : routeEvaluated(r)
  \/ \E r \in Routes : routeAgain(r)
  \/ \E r \in Routes, ok \in BOOLEAN : routedRequest(r, ok)

HubSpec == Init /\ [][HubNext]_vars

\* the router's own steps are taken: a predicate that was asked answers, a
\* woken route runs again
HubFairSpec ==
  /\ HubSpec
  /\ \A r \in Routes : WF_vars(routeEvaluated(r)) /\ WF_vars(routeAgain(r))

(***************************************************************************)
(* A next-tick channel and its callers                                     *)
(***************************************************************************)
TickNext ==
  \/ \E type \in {Promise, EventListen} : tickCall(type)
  \/ tickTimeout

TickSpec == Init /\ [][TickNext]_vars

(***************************************************************************)
(* The codec on one message                                                *)
(***************************************************************************)
CodecNext == codecSend \/ codecReceive

CodecStart ==
  /\ ChannelsInit
  /\ hub = IPCServerNew
  /\ CodecInit
  /\ tick = getNextTickChannel

CodecSpec == CodecStart /\ [][CodecNext]_vars

(***************************************************************************)
(* Vocabulary of the claims                                                *)
(***************************************************************************)
Occurrences(seq, x) == Cardinality({i \in 1 .. Len(seq) : seq[i] = x})
\* the requests queued for an unregistered channel that are calls
QueuedCalls == {r \in channelServer.collected : r.type = Promise}
\* the 'Unknown channel' errors the server sent for the id
UnknownChannelErrors(id) ==
  {i \in 1 .. Len(answered[id]) :
     answered[id][i].type = PromiseError /\ answered[id][i].data = UnknownChannel}
\* the responses for the id that the transport still carries
InFlight(id) == {i \in 1 .. Len(toClient) : toClient[i].id = id}
\* the outcome a terminal response gives the caller's future
Outcome(response) ==
  CASE response.type = PromiseSuccess -> Resolved(response.data)
    [] response.type = PromiseError -> RejectedError(response.data)
    [] response.type = PromiseErrorObj -> RejectedObj(response.data)
    [] OTHER -> Pending

(***************************************************************************)
(* C1: after registerChannel(name), every request that waited in the       *)
(* pending queue for name is handed to the channel before any request for  *)
(* name the server receives after the registerChannel call.  A request     *)
(* that was never queued was received with the channel registered.         *)
(***************************************************************************)
C1_QueuedDispatchedBeforeLater ==
  LET d == channelServer.dispatched IN
  /\ \A i, j \in 1 .. Len(d) :
       (d[i] \notin channelServer.collected /\ d[j] \in channelServer.collected
          /\ d[i].channelName = d[j].channelName) => j < i
  /\ \A i \in 1 .. Len(d) :
       d[i] \notin channelServer.collected =>
         channelServer.pendingRequests[d[i].channelName] = <<>>

(***************************************************************************)
(* C2: late registration.  A call queued for an unregistered channel whose *)
(* channel is registered before its timeout fires is handed to the channel *)
(* at most once, and once the channel has resolved it and the responses    *)
(* have reached the caller, the caller's future (its token not cancelled)  *)
(* is resolved with the channel's result.                                  *)
(***************************************************************************)
C2_LateRegistrationResolves ==
  \A r \in channelServer.inTime :
    (r.type = Promise /\ ~token[r.id]) =>
      /\ Occurrences(channelServer.dispatched, r) <= 1
      /\ \A d \in Values :
           (/\ Frame(PromiseSuccess, r.id, NoValue, d) \in
                 {answered[r.id][i] : i \in 1 .. Len(answered[r.id])}
            /\ InFlight(r.id) = {}
            /\ Continuations = {})
             => result[r.id] = Resolved(d)

(***************************************************************************)
(* C3: for every call queued for an unregistered channel, its timer fires  *)
(* at most once; if the request is drained first, the timer is cleared and *)
(* no 'Unknown channel' error is sent for its id; if the timer fires, the  *)
(* server sends exactly one PromiseError(id) named 'Unknown channel', and  *)
(* once it has reached the caller the future is rejected with that error   *)
(* (or was rejected with Canceled by the caller's own cancel before).      *)
(***************************************************************************)
C3_TimeoutOrDrained ==
  \A r \in QueuedCalls :
    LET errors == UnknownChannelErrors(r.id)
        waiting == r \in channelServer.timers
        timedOut == r \in channelServer.fired
        drained == Occurrences(channelServer.dispatched, r) > 0
        delivered == \A i \in InFlight(r.id) : toClient[i].data # UnknownChannel
    IN /\ Cardinality(errors) = (IF timedOut THEN 1 ELSE 0)
       /\ waiting => (~timedOut /\ ~drained)
       /\ ~waiting => (timedOut \/ drained)
       /\ (drained /\ ~timedOut) => errors = {}
       /\ (timedOut /\ delivered) =>
            \/ result[r.id] = RejectedError(UnknownChannel)
            \/ cancelledAt[r.id] = "sent" /\ result[r.id] = RejectedError(Canceled)

\* C3 as stated: whenever the timer of a queued call has fired and its error
\* has reached the caller, the caller's future is rejected with that error
C3_TimeoutRejectsCaller ==
  \A r \in QueuedCalls :
    (/\ r \in channelServer.fired
     /\ \A i \in InFlight(r.id) : toClient[i].data # UnknownChannel)
      => result[r.id] = RejectedError(UnknownChannel)

\* a queued call has timed out, was drained afterwards, and the caller holds
\* the 'Unknown channel' error; another was drained in time
C3_Witness ==
  /\ \E r \in QueuedCalls :
       /\ r \in channelServer.fired
       /\ Occurrences(channelServer.dispatched, r) = 1
       /\ result[r.id] = RejectedError(UnknownChannel)
  /\ \E r \in QueuedCalls :
       /\ r \notin channelServer.fired
       /\ Occurrences(channelServer.dispatched, r) = 1

C7_CancelReachesChannel ==
  \A id \in Ids :
    (/\ channelServer.handled[id] = <<Promise, PromiseCancel>>
     /\ answered[id] = <<>>
     /\ channelServer.calls[id] = "running")
      => channelServer.tokens[id]

(***************************************************************************)
(* C8: the caller's future settles at most once.  The first of a terminal  *)
(* response and a local cancel decides the outcome; no later step, a       *)
(* further response for the id included, changes it.                       *)
(***************************************************************************)
C8_SettlesOnce ==
  [][\A id \in Ids :
       /\ result[id].st \notin {"none", "pending"} => result'[id] = result[id]
       /\ (result[id].st = "pending" /\ result'[id] # result[id]) =>
            \/ ~token[id] /\ token'[id] /\ result'[id] = RejectedError(Canceled)
            \/ /\ toClient # <<>> /\ toClient' = Tail(toClient)
               /\ Head(toClient).id = id
               /\ result'[id] = Outcome(Head(toClient))]_vars

\* a settled call for which the server sent two terminal responses, both
\* delivered, and one cancelled by the caller and answered afterwards
C8_Witness ==
  /\ \E id \in Ids :
       /\ Len(answered[id]) = 2
       /\ InFlight(id) = {}
       /\ result[id] = Outcome(answered[id][1])
  /\ \E id \in Ids :
       /\ cancelledAt[id] = "sent"
       /\ Len(answered[id]) = 1
       /\ InFlight(id) = {}

(***************************************************************************)
(* C9, as stated for the last subscriber: whenever the subscriber count of *)
(* an event source of an initialized client goes from 1 to 0, the client   *)
(* sends EventDispose(id).                                                 *)
(***************************************************************************)
C9_DisposeOnLastRemoved ==
  [][\A id \in Ids :
       (/\ state = Idle
        /\ requests[id].type = EventListen
        /\ listeners[id] # {} /\ listeners'[id] = {})
         => sent'[id] = Append(sent[id], EventDispose)]_vars

(***************************************************************************)
(* C9: for the event source of id, the client sends EventListen(id) from   *)
(* the continuation of the initialization wait the first subscriber        *)
(* started, while subscribers exist, and EventDispose(id) when the last    *)
(* subscriber leaves after EventListen(id) went out; a first subscriber    *)
(* that leaves before the continuation has run causes neither frame.       *)
(* The frames of an id alternate, starting with EventListen; once no wait  *)
(* is outstanding, EventListen(id) is the last frame sent exactly when     *)
(* subscribers exist.  Adding or removing a subscriber while others remain *)
(* sends no frame, and every EventFire(id, data) received is delivered to  *)
(* each current subscriber and to nobody else.                             *)
(***************************************************************************)
C9_FanOut ==
  /\ [](\A id \in Ids :
          (requests[id].type = EventListen /\ uninitializedPromise[id] = "null") =>
            (listeners[id] # {} <=> (sent[id] # <<>> /\ Last(sent[id]) = EventListen)))
  /\ [][\A id \in Ids :
          requests[id].type = EventListen =>
            /\ sent'[id] # sent[id] =>
                 \/ /\ sent'[id] = Append(sent[id], EventListen)
                    /\ sent[id] = <<>> \/ Last(sent[id]) = EventDispose
                    /\ listeners[id] # {} /\ listeners'[id] = listeners[id]
                 \/ /\ sent'[id] = Append(sent[id], EventDispose)
                    /\ sent[id] # <<>> /\ Last(sent[id]) = EventListen
                    /\ listeners[id] # {} /\ listeners'[id] = {}
            /\ (listeners[id] # {} /\ listeners'[id] = {}
                  /\ uninitializedPromise[id] = "null") =>
                 sent'[id] = Append(sent[id], EventDispose)
            /\ (listeners[id] # {} /\ listeners'[id] = {}
                  /\ uninitializedPromise[id] # "null") =>
                 (sent'[id] = sent[id] /\ uninitializedPromise'[id] = "null")
            /\ (listeners'[id] # listeners[id] /\ listeners[id] # {}
                  /\ listeners'[id] # {}) => sent' = sent
            /\ (toClient # <<>> /\ toClient' = Tail(toClient)
                  /\ Head(toClient).type = EventFire /\ Head(toClient).id = id) =>
                 \A sub \in Subscribers :
                   observed'[sub] =
                     IF sub \in listeners[id]
                       THEN Append(observed[sub], <<id, Head(toClient).data>>)
                       ELSE observed[sub]]_vars

\* two subscribers of one source were both called with a fired event, and
\* both left: one EventListen and one EventDispose went out
C9_Witness ==
  \E id \in Ids :
    /\ sent[id] = <<EventListen, EventDispose>>
    /\ listeners[id] = {}
    /\ \A sub \in Subscribers : observed[sub] = << <<id, "a">> >>

(***************************************************************************)
(* C10: once the server has handled EventDispose(id), and no EventListen   *)
(* for the id since, it holds no subscription for the id (and so sends no  *)
(* EventFire(id)), also when the EventListen was still queued when the     *)
(* EventDispose arrived.                                                   *)
(***************************************************************************)
C10_DisposedHoldsNoSubscription ==
  \A id \in Ids :
    LET h == channelServer.handled[id] IN
      (h # <<>> /\ Last(h) = EventDispose) =>
        (channelServer.subscriptions[id] = 0 /\ channelServer.activeRequests[id] = "none")

(***************************************************************************)
(* Vocabulary of the claims about the hub                                  *)
(***************************************************************************)
\* the peers whose connection is in hub.connections
Connected == {hub.connections[i] : i \in 1 .. Len(hub.connections)}
\* a connection whose ctx satisfies the router's predicate is attached
MatchConnected == \E p \in Connected : fn(hub.peers[p].connectionCtx)
\* the routing future of r was asked for and has not resolved
RoutePending(r) == hub.routes[r].st \in {"evaluating", "parked", "woken"}

(***************************************************************************)
(* C11: whenever a routing future is pending and a connection whose ctx    *)
(* satisfies the predicate is attached to the hub, the future eventually   *)
(* resolves, unless no such connection stays attached.                     *)
(***************************************************************************)
C11_RouteEventuallyResolves ==
  \A r \in Routes :
    (RoutePending(r) /\ MatchConnected) ~> (~RoutePending(r) \/ ~MatchConnected)

(***************************************************************************)
(* C12: a call or listen routed by StaticRouter(fn) resolves only to a     *)
(* connection whose ctx satisfies fn, and request frames are sent only on  *)
(* the protocol of such a connection: a peer whose ctx does not satisfy fn *)
(* is sent no Promise or EventListen frame.                                *)
(***************************************************************************)
C12_RoutedOnlyToMatch ==
  /\ \A r \in Routes :
       hub.routes[r].st \in {"resolved", "sent"} =>
         /\ fn(hub.peers[hub.routes[r].connection].connectionCtx)
         /\ fn(hub.peers[hub.routes[r].connection].ctx)
  /\ \A p \in Peers :
       (\E i \in 1 .. Len(hub.peers[p].toPeer) :
          hub.peers[p].toPeer[i].type \in {Promise, EventListen})
         => fn(hub.peers[p].ctx)

\* a routed request went out to a matching connection while a connection
\* that does not match was attached, and that one was sent no request
C12_Witness ==
  \E r \in Routes, p, q \in Peers :
    /\ hub.routes[r].st = "sent"
    /\ hub.routes[r].connection = p
    /\ hub.peers[p].toPeer # <<>>
    /\ Last(hub.peers[p].toPeer) = Message(hub.routes[r].type, r, <<>>)
    /\ q \in Connected
    /\ ~fn(hub.peers[q].connectionCtx)
    /\ hub.routes[r].snapshot # <<>> /\ hub.routes[r].snapshot[1] = q

(***************************************************************************)
(* C13: every connection in hub.connections has a ChannelServer on which   *)
(* every channel name registered on the hub is registered with the hub's   *)
(* current channel for the name.                                           *)
(***************************************************************************)
C13_HubRegistry ==
  \A p \in Connected :
    \A c \in ChannelNames :
      hub.channels[c] # 0 => hub.peers[p].channels[c] = hub.channels[c]

\* the name was registered twice, a connection has left and one is attached
C13_Witness ==
  /\ hub.registers = 2
  /\ \E c \in ChannelNames : hub.channels[c] = 2
  /\ Connected # {}
  /\ \E p \in Peers : hub.peers[p].st = "gone" /\ hub.peers[p].channels # hub.channels

(***************************************************************************)
(* C15: no failure of protocol.send leaves the IPC layer: no constructor,  *)
(* call, listen or response emission throws because a send threw.          *)
(***************************************************************************)
C15_SendFailureSwallowed == hub.escaped = {}

(***************************************************************************)
(* C14, as stated: once the promise channel.call returned has settled and  *)
(* the responses for the id have reached the caller, the caller's future   *)
(* has the service's outcome: resolved with the value, rejected with an    *)
(* error of the same name and message, or rejected with the raw payload.   *)
(***************************************************************************)
C14_CallerMirrorsService ==
  \A id \in Ids :
    (channelServer.outcomes[id] # NoResult /\ InFlight(id) = {})
      => result[id] = channelServer.outcomes[id]

(***************************************************************************)
(* C14: for a call dispatched to a registered channel, the server answers  *)
(* the service's outcome with one response of the matching type and        *)
(* payload (PromiseSuccess, PromiseError, PromiseErrorObj), sent last for  *)
(* the id.  Once delivered, the caller's future has the service's outcome, *)
(* unless the caller cancelled the call before it settled (Canceled) or    *)
(* the request had timed out in the pending queue before it was            *)
(* dispatched ('Unknown channel').                                         *)
(***************************************************************************)
C14_OutcomeMirrored ==
  \A id \in Ids :
    LET outcome == channelServer.outcomes[id] IN
    outcome # NoResult =>
      /\ answered[id] # <<>>
      /\ Last(answered[id]) = onPromiseSettled(id, outcome)
      /\ Outcome(Last(answered[id])) = outcome
      /\ Len(answered[id]) - Cardinality(UnknownChannelErrors(id)) = 1
      /\ InFlight(id) = {} =>
           result[id] =
             IF cancelledAt[id] \in {"sent"} THEN RejectedError(Canceled)
             ELSE IF UnknownChannelErrors(id) # {} THEN RejectedError(UnknownChannel)
             ELSE outcome

\* one call rejected with an Error and one with a payload that is no Error,
\* both delivered to their callers
C14_Witness ==
  \E a, b \in Ids :
    /\ channelServer.outcomes[a].st = "rejectedError"
    /\ result[a] = channelServer.outcomes[a]
    /\ channelServer.outcomes[b].st = "rejectedObj"
    /\ result[b] = channelServer.outcomes[b]

(***************************************************************************)
(* C16: for a header value and a body value built from undefined,          *)
(* strings, VSBuffers, JSON values and arrays of those, deserialize        *)
(* applied twice to the bytes serialize wrote for the pair returns the     *)
(* same pair: the header is read from exactly the bytes written for it     *)
(* and the body from exactly the rest.                                     *)
(***************************************************************************)
C16_RoundTrip ==
  codec.phase = "received" =>
    /\ codec.got = <<codec.header, codec.body>>
    /\ codec.pos = <<Len(serialize(codec.header)), Len(codec.buffer)>>

\* a pair went through whose header is an array of two elements and whose
\* body is a string with a two-byte character
C16_Witness ==
  /\ codec.phase = "received"
  /\ codec.header.t = "Array" /\ Len(codec.header.els) = 2
  /\ codec.header.els[1].t = "Object" /\ codec.header.els[2].t = "Array"
  /\ codec.body = String(<<97, 233>>)
  /\ Len(codec.buffer) > Len(serialize(codec.header)) + 7

(***************************************************************************)
(* C17: the ids one ChannelClient issues strictly increase: every call and *)
(* every listen is issued the counter's value, which is greater than every *)
(* id issued before, and advances the counter by one; calls and event      *)
(* subscriptions draw from the same counter.                               *)
(***************************************************************************)
C17_IdsStrictlyIncrease ==
  /\ [](\A id \in Ids : requests[id].type # 0 <=> id < lastRequestId)
  /\ [][\A id \in Ids :
          (requests[id].type = 0 /\ requests'[id].type # 0) =>
            /\ \A earlier \in Ids : requests[earlier].type # 0 => earlier < id
            /\ id = lastRequestId
            /\ lastRequestId' = id + 1
            /\ \A other \in Ids \ {id} : requests'[other] = requests[other]]_vars

\* a listen was issued id 0 and a call after it id 1
C17_Witness ==
  /\ requests[0].type = EventListen
  /\ requests[1].type = Promise
  /\ lastRequestId = 2

(***************************************************************************)
(* C18: a queued request whose timeout has fired is not dispatched to the  *)
(* channel by a later registerChannel for its channel name.                *)
(***************************************************************************)
C18_TimedOutNotDispatched ==
  \A r \in channelServer.fired : Occurrences(channelServer.dispatched, r) = 0

(***************************************************************************)
(* C19: no two Promise or EventListen frames a ChannelClient sends carry   *)
(* the same id.                                                            *)
(***************************************************************************)
C19_IdsNotRecycled ==
  \A id \in Ids :
    Occurrences(sent[id], Promise) + Occurrences(sent[id], EventListen) <= 1

(***************************************************************************)
(* C20: requests that waited in the pending queue of a channel are         *)
(* dispatched only by the drain task that registerChannel queued for the   *)
(* channel, after the channel was registered, all in one step and in the   *)
(* order they were queued, Promise and EventListen alike; the queue is     *)
(* empty afterwards.                                                       *)
(***************************************************************************)
C20_DrainInArrivalOrder ==
  [][LET s == channelServer
         new == SubSeq(s.dispatched', Len(s.dispatched) + 1, Len(s.dispatched'))
     IN (\E i \in 1 .. Len(new) : new[i] \in s.collected) =>
          /\ s.flushTasks # <<>>
          /\ LET c == Head(s.flushTasks)
                 queue == s.pendingRequests[c]
             IN /\ c \in s.channels
                /\ new = [i \in 1 .. Len(queue) |-> queue[i].request]
                /\ s.pendingRequests'[c] = <<>>]_vars

\* a listen and a call that were queued in this order were drained in it
C20_Witness ==
  /\ Len(channelServer.dispatched) = 2
  /\ channelServer.dispatched[1].type = EventListen
  /\ channelServer.dispatched[2].type = Promise
  /\ \A i \in 1 .. 2 : channelServer.dispatched[i] \in channelServer.collected
  /\ channelServer.fired = {}

(***************************************************************************)
(* C21: once ChannelServer.dispose() has returned, the server's state is   *)
(* cleared: activeRequests holds no handle, every pending-request queue is *)
(* empty and no pending-request timer is armed, so that no timeout sends a *)
(* response and no deferred drain calls a channel later.                   *)
(***************************************************************************)
C21_DisposeClearsAll ==
  ~channelServer.protocolListener =>
    /\ \A id \in Ids : channelServer.activeRequests[id] = "none"
    /\ \A c \in ChannelNames : channelServer.pendingRequests[c] = <<>>
    /\ channelServer.timers = {}

(***************************************************************************)
(* C22: a ChannelClient is Idle exactly when an Initialize frame has       *)
(* reached it, and onDidInitialize fires exactly once over its lifetime,   *)
(* whatever frames arrive, a second Initialize included.                   *)
(***************************************************************************)
C22_InitializedOnce ==
  /\ state = Uninitialized <=> channelClient.onDidInitialize = 0
  /\ state = Idle <=> channelClient.onDidInitialize = 1

\* the number of responses the server has sent for the ids below n
RECURSIVE AnsweredBelow(_)
AnsweredBelow(n) ==
  IF n = 0 THEN 0 ELSE Len(answered[n - 1]) + AnsweredBelow(n - 1)

(***************************************************************************)
(* C23: the ChannelServer sends exactly one Initialize frame, and sends it *)
(* before every other frame: until the client has received it, it is the   *)
(* first frame in flight and every response the server has sent is in      *)
(* flight behind it; no other frame in flight is an Initialize, and the    *)
(* client receives one Initialize at most.                                 *)
(***************************************************************************)
C23_InitializeFirstAndOnce ==
  /\ \A i \in 1 .. Len(toClient) :
       toClient[i].type = Initialize <=> (i = 1 /\ channelClient.onDidInitialize = 0)
  /\ channelClient.onDidInitialize = 0 =>
       (toClient # <<>> /\ Len(toClient) = 1 + AnsweredBelow(MaxRequests))
  /\ channelClient.onDidInitialize <= 1
  /\ \A id \in Ids : \A i \in 1 .. Len(answered[id]) :
       answered[id][i].type \in {PromiseSuccess, PromiseError, PromiseErrorObj, EventFire}

\* the Initialize was received, and after it a terminal response and an
\* EventFire that the server sent
C23_Witness ==
  /\ channelClient.onDidInitialize = 1
  /\ toClient = <<>>
  /\ \E a, b \in Ids :
       /\ answered[a] # <<>> /\ answered[a][1].type = PromiseSuccess
       /\ answered[b] # <<>> /\ answered[b][1].type = EventFire

(***************************************************************************)
(* C24: the handlers map holds an entry for the id of a call exactly while *)
(* the call is sent and unsettled; a call the caller cancelled after it    *)
(* was sent has no entry, so a later response for it finds no handler.     *)
(***************************************************************************)
C24_HandlerOnlyWhileUnsettled ==
  \A id \in Ids :
    requests[id].type = Promise => (id \in handlers <=> Standing(id) = "sent")

(***************************************************************************)
(* C25: ChannelClient.dispose() leaves activeRequests empty and rejects    *)
(* with Canceled every call whose future was unsettled when it ran, a call *)
(* still waiting for the initialization as well as a call already sent; a  *)
(* call that was sent is sent a PromiseCancel, the others send nothing.    *)
(***************************************************************************)
C25_DisposeCancelsAll ==
  [][(channelClient.protocolListener /\ ~channelClient'.protocolListener) =>
       /\ activeRequests' = {}
       /\ \A id \in Ids :
            (requests[id].type = Promise /\ result[id].st = "pending") =>
              /\ result'[id] = RejectedError(Canceled)
              /\ sent'[id] = IF Standing(id) = "sent"
                               THEN Append(sent[id], PromiseCancel) ELSE sent[id]
              /\ uninitializedPromise'[id] = "null"]_vars

\* a client was disposed with one call sent and one whose Promise frame had
\* not gone out: both are rejected with Canceled, by no cancel of the caller
C25_Witness ==
  /\ ~channelClient.protocolListener
  /\ \E a, b \in Ids :
       /\ channelClient.disposed = {a, b}
       /\ sent[a] = <<Promise, PromiseCancel>>
       /\ sent[b] = <<>>
       /\ \A id \in {a, b} :
            /\ requests[id].type = Promise
            /\ ~token[id]
            /\ result[id] = RejectedError(Canceled)

(***************************************************************************)
(* C26: for a Promise(id) request the server received once, it sends at    *)
(* most one terminal response (PromiseSuccess, PromiseError or             *)
(* PromiseErrorObj) carrying the id.                                       *)
(***************************************************************************)
C26_OneTerminalResponse ==
  \A id \in Ids :
    Occurrences(channelServer.handled[id], Promise) = 1 =>
      Cardinality({i \in 1 .. Len(answered[id]) :
                     answered[id][i].type \in
                       {PromiseSuccess, PromiseError, PromiseErrorObj}}) <= 1

(***************************************************************************)
(* C27: the client sends PromiseCancel(id) only for a call whose token was *)
(* cancelled while its Promise(id) frame was sent and its future still     *)
(* unsettled; a token cancelled after the call settled sends no frame.     *)
(***************************************************************************)
C27_CancelOnlyWhileUnsettled ==
  \A id \in Ids :
    Occurrences(sent[id], PromiseCancel) > 0 => cancelledAt[id] = "sent"

(***************************************************************************)
(* C28: the connection a route resolves to is in hub.connections at the    *)
(* moment the route resolves, whatever disconnects happened while the      *)
(* predicate was being evaluated.                                          *)
(***************************************************************************)
C28_ResolvesToAttached ==
  [][\A r \in Routes :
       (hub.routes[r].st # "resolved" /\ hub'.routes[r].st = "resolved") =>
         \E i \in 1 .. Len(hub'.connections) :
           hub'.connections[i] = hub'.routes[r].connection]_vars

(***************************************************************************)
(* C29: a channel made by getNextTickChannel hands the operations to the   *)
(* underlying channel in the order they were issued on the wrapper, also   *)
(* when some were issued before the first tick and others after it.        *)
(***************************************************************************)
C29_ForwardedInIssueOrder ==
  \A i, j \in 1 .. Len(tick.forwarded) :
    i < j => tick.forwarded[i].n < tick.forwarded[j].n

====
